---- MODULE Spec2Model ----
(***************************************************************************)
(* A model of hwloc's distance pipeline (src/src/distances.c): the per-type *)
(* store of OS distance matrices, the parser of the HWLOC_<type>_DISTANCES  *)
(* environment variables, the conversion of OS indexes into tree            *)
(* objects, the normalisation into logically-ordered latency matrices and   *)
(* the recursive grouping of objects by minimal distance.                   *)
(*                                                                          *)
(* Conventions.  A C pointer is a set: {} is NULL and {v} points to v.  A   *)
(* hwloc_obj_t is an index into the tree arena, 0 being NULL.  A float is   *)
(* an exact fraction <<num, den>> in lowest terms with den > 0; on the      *)
(* small integers used here every comparison the code makes has the same    *)
(* outcome on fractions as on IEEE floats.  C arrays are 0-based, TLA+      *)
(* sequences 1-based: cell [i][j] of an n x n matrix m is m[i*n + j + 1].   *)
(***************************************************************************)
EXTENDS Integers, Sequences, FiniteSets, TLC

VARIABLES
  tree,          \* the topology tree: a sequence (arena) of objects, root at 1
  os_distances,  \* topology->os_distances[type]: nbobjs, indexes, distances, objs
  ret,           \* return value of the last hwloc_topology_set_distance_matrix
  errno,         \* errno as left by the last failing call
  groups,        \* Group objects inserted into the tree, in insertion order
  attached,      \* obj -> sequence of hwloc_distances_s records (obj->distances)
  glog,          \* type -> the levels of the last grouping run for that type
  crashed,       \* the process died on a memory fault
  lastcall       \* the operation that produced this state, with its arguments

vars == <<tree, os_distances, ret, errno, groups, attached, glog, crashed, lastcall>>

----------------------------------------------------------------------------
(* Pointers                                                                 *)

NULL == {}

Ptr(v) == {v}

Deref(p) == CHOOSE v \in p : TRUE

----------------------------------------------------------------------------
(* Floats as exact fractions                                                *)

Abs(x) == IF x < 0 THEN -x ELSE x

RECURSIVE Gcd(_, _)
Gcd(a, b) == IF b = 0 THEN a ELSE Gcd(b, a % b)

\* the fraction n/d in lowest terms, d # 0
Q(n, d) ==
  LET g == Gcd(Abs(n), Abs(d))
      s == IF d < 0 THEN -1 ELSE 1
  IN  <<(s * n) \div g, (s * d) \div g>>

F(n) == <<n, 1>>

QAdd(a, b) == Q(a[1] * b[2] + b[1] * a[2], a[2] * b[2])

QLt(a, b) == a[1] * b[2] < b[1] * a[2]

QLe(a, b) == a[1] * b[2] <= b[1] * a[2]

\* a / b, b # 0
QDiv(a, b) == Q(a[1] * b[2], a[2] * b[1])

\* <float.h>: stand-ins for the largest float and the smallest positive
\* normal float; every modelled distance is 0 or lies strictly between them
FLT_MAX == <<1000000, 1>>

FLT_MIN == <<1, 1000000>>

\* cell [i][j] (0-based) of the row-major n x n matrix m
Cell(m, n, i, j) == m[i * n + j + 1]

----------------------------------------------------------------------------
(* The topology tree                                                        *)

\* hwloc_obj_type_t in enumeration order, restricted to the types the
\* modelled trees hold
TypeOrder == <<"MACHINE", "NODE", "SOCKET", "PU">>

Types == {TypeOrder[k] : k \in DOMAIN TypeOrder}

Obj(type, os_index, cpuset, depth, logical_index, children) ==
  [type |-> type, os_index |-> os_index, cpuset |-> cpuset, depth |-> depth,
   logical_index |-> logical_index, children |-> children]

\* Machine > 2 Sockets > 2 Nodes each; Node OS indexes are not in logical order
TreeTwoSockets ==
  << Obj("MACHINE", 0, {0, 1, 2, 3}, 0, 0, <<2, 3>>),
     Obj("SOCKET", 0, {0, 1}, 1, 0, <<4, 5>>),
     Obj("SOCKET", 1, {2, 3}, 1, 1, <<6, 7>>),
     Obj("NODE", 1, {0}, 2, 0, <<>>),
     Obj("NODE", 0, {1}, 2, 1, <<>>),
     Obj("NODE", 2, {2}, 2, 2, <<>>),
     Obj("NODE", 3, {3}, 2, 3, <<>>) >>

\* Machine > 1 Socket > 2 Nodes: OS indexes 2 and 3 name no Node, 1 no Socket
TreeOneSocket ==
  << Obj("MACHINE", 0, {0, 1}, 0, 0, <<2>>),
     Obj("SOCKET", 0, {0, 1}, 1, 0, <<3, 4>>),
     Obj("NODE", 0, {0}, 2, 0, <<>>),
     Obj("NODE", 1, {1}, 2, 1, <<>>) >>

\* Machine > 3 Nodes, OS indexes a rotation of the logical order
TreeThreeNodes ==
  << Obj("MACHINE", 0, {0, 1, 2}, 0, 0, <<2, 3, 4>>),
     Obj("NODE", 2, {0}, 1, 0, <<>>),
     Obj("NODE", 0, {1}, 1, 1, <<>>),
     Obj("NODE", 1, {2}, 1, 2, <<>>) >>

\* Machine > k PUs, PU i covering processor i
TreeFlat(k) ==
  [o \in 1..(k + 1) |->
     IF o = 1 THEN Obj("MACHINE", 0, 0..(k - 1), 0, 0, [c \in 1..k |-> c + 1])
              ELSE Obj("PU", o - 2, {o - 2}, 1, o - 2, <<>>)]

----------------------------------------------------------------------------
(* DistanceStore: topology->os_distances[]                                 *)

EINVAL == "EINVAL"

NoCall(op) == [op |-> op, type |-> "", nbobjs |-> 0, indexes |-> <<>>]

EmptySlot == [nbobjs |-> 0, objs |-> NULL, indexes |-> NULL, distances |-> NULL]

\* the store as hwloc_topology_distances_init leaves it
InitialStore == [t \in Types |-> EmptySlot]

\* called during topology init
hwloc_topology_distances_init ==
  /\ ~crashed
  /\ os_distances' = InitialStore
  /\ lastcall' = NoCall("init")
  /\ UNCHANGED <<tree, ret, errno, groups, attached, glog, crashed>>

\* a defect: the reload drops the physically-ordered arrays as well
ClearedSlot_DropsAll(slot) ==
  [slot EXCEPT !.indexes = NULL, !.objs = NULL, !.distances = NULL]

ClearedSlot(slot) == [slot EXCEPT !.objs = NULL]

\* called when reloading a topology: drops objs, keeps indexes and distances
hwloc_topology_distances_clear ==
  /\ ~crashed
  /\ os_distances' = [t \in Types |-> ClearedSlot(os_distances[t])]
  /\ lastcall' = NoCall("clear")
  /\ UNCHANGED <<tree, ret, errno, groups, attached, glog, crashed>>

DestroyedSlot(slot) ==
  [slot EXCEPT !.indexes = NULL, !.objs = NULL, !.distances = NULL]

\* called during topology destroy (nbobjs is left as it is)
hwloc_topology_distances_destroy ==
  /\ ~crashed
  /\ os_distances' = [t \in Types |-> DestroyedSlot(os_distances[t])]
  /\ lastcall' = NoCall("destroy")
  /\ UNCHANGED <<tree, ret, errno, groups, attached, glog, crashed>>

\* "make sure we don't have the same index twice"
HasDuplicateIndex(nbobjs, indexes) ==
  \E i \in 0..(nbobjs - 1) :
    \E j \in (i + 1)..(nbobjs - 1) : indexes[i + 1] = indexes[j + 1]

\* a defect: the new arrays are installed before the index list is looked at
SlotAfterSet_Unchecked(slot, nbobjs, indexes, distances) ==
  [slot EXCEPT !.nbobjs = nbobjs, !.indexes = Ptr(indexes),
               !.distances = Ptr(distances)]

\* the slot of a type after hwloc_topology__set_distance_matrix on it
SlotAfterSet(slot, nbobjs, indexes, distances) ==
  IF HasDuplicateIndex(nbobjs, indexes)
  THEN slot
  ELSE [slot EXCEPT !.nbobjs = nbobjs, !.indexes = Ptr(indexes),
                    !.distances = Ptr(distances)]

\* check a distance index array and matrix and insert it in the topology
hwloc_topology__set_distance_matrix(type, nbobjs, indexes, distances) ==
  /\ os_distances' =
       [os_distances EXCEPT ![type] = SlotAfterSet(@, nbobjs, indexes, distances)]
  /\ IF HasDuplicateIndex(nbobjs, indexes)
     THEN ret' = -1 /\ errno' = EINVAL
     ELSE ret' = 0 /\ errno' = errno

\* the public entry point: copies both arrays and hands the copies over
hwloc_topology_set_distance_matrix(type, nbobjs, indexes, distances) ==
  /\ ~crashed
  /\ LET _indexes == [k \in 1..nbobjs |-> indexes[k]]
         _distances == [k \in 1..(nbobjs * nbobjs) |-> distances[k]]
     IN  hwloc_topology__set_distance_matrix(type, nbobjs, _indexes, _distances)
  /\ lastcall' = [op |-> "set", type |-> type, nbobjs |-> nbobjs, indexes |-> indexes]
  /\ UNCHANGED <<tree, groups, attached, glog, crashed>>

\* a defect: the middle level divides the position by y alone
GeneratedMatrix_MiddleByY(nbobjs, y, z) ==
  [k \in 1..(nbobjs * nbobjs) |->
     LET i == (k - 1) \div nbobjs
         j == (k - 1) % nbobjs
     IN  IF i = j THEN F(1)
         ELSE IF i \div z = j \div z THEN F(2)
         ELSE IF i \div y = j \div y THEN F(4)
         ELSE F(8)]

\* "generate the matrix to create x groups of y elements" (of z elements
\* each): what HWLOC_<type>_DISTANCES=...:X*Y*Z stores, for x*y*z = nbobjs
GeneratedMatrix(nbobjs, y, z) ==
  [k \in 1..(nbobjs * nbobjs) |->
     LET i == (k - 1) \div nbobjs
         j == (k - 1) % nbobjs
     IN  IF i = j THEN F(1)
         ELSE IF i \div z = j \div z THEN F(2)
         ELSE IF (i \div z) \div y = (j \div z) \div y THEN F(4)
         ELSE F(8)]

----------------------------------------------------------------------------
(* ConfigParser: HWLOC_<type>_DISTANCES                                     *)
(* A C string is the sequence of its characters; the terminating NUL is    *)
(* what is read at offset Len.  Offsets are 0-based, as pointers into the  *)
(* string.  The characters are the digits, ',', ':' and '*': no sign, blank,*)
(* point, exponent or hexadecimal prefix is modelled.                      *)

NUL == "NUL"

Digits == <<"0", "1", "2", "3", "4", "5", "6", "7", "8", "9">>

IsDigit(c) == \E d \in DOMAIN Digits : Digits[d] = c

DigitValue(c) == (CHOOSE d \in DOMAIN Digits : Digits[d] = c) - 1

\* string[at]
CharAt(string, at) == IF at < Len(string) THEN string[at + 1] ELSE NUL

\* strspn(string + at, "0123456789")
RECURSIVE strspn(_, _)
strspn(string, at) ==
  IF IsDigit(CharAt(string, at)) THEN 1 + strspn(string, at + 1) ELSE 0

\* the value of the size digits at string + at, read in the given base
RECURSIVE NumberAt(_, _, _, _)
NumberAt(string, at, size, base) ==
  IF size = 0 THEN 0
  ELSE NumberAt(string, at, size - 1, base) * base + DigitValue(CharAt(string, at + size - 1))

\* the length of the run of octal digits at string + at
RECURSIVE OctalSpan(_, _)
OctalSpan(string, at) ==
  IF IsDigit(CharAt(string, at)) /\ DigitValue(CharAt(string, at)) < 8
  THEN 1 + OctalSpan(string, at + 1) ELSE 0

\* strtoul(string + at, &next, 0): a leading 0 announces an octal number
strtoul(string, at) ==
  IF CharAt(string, at) = "0"
  THEN [value |-> NumberAt(string, at, OctalSpan(string, at), 8),
        next |-> at + OctalSpan(string, at)]
  ELSE [value |-> NumberAt(string, at, strspn(string, at), 10),
        next |-> at + strspn(string, at)]

\* strtof(string + at, &next): no conversion gives 0 and next = string + at
strtof(string, at) ==
  [value |-> F(NumberAt(string, at, strspn(string, at), 10)),
   next |-> at + strspn(string, at)]

\* sscanf(string + at, "%u*%u*%u", &x, &y, &z), z being 1 beforehand: the
\* number of conversions (-1: end of input before the first) and x, y, z
sscanf(string, at) ==
  LET xs == strspn(string, at)
      ys == strspn(string, at + xs + 1)
      zs == strspn(string, at + xs + 1 + ys + 1)
      x == NumberAt(string, at, xs, 10)
      y == NumberAt(string, at + xs + 1, ys, 10)
      z == NumberAt(string, at + xs + 1 + ys + 1, zs, 10)
  IN  IF xs = 0 THEN [count |-> IF CharAt(string, at) = NUL THEN -1 ELSE 0,
                      x |-> 0, y |-> 0, z |-> 1]
      ELSE IF CharAt(string, at + xs) # "*" \/ ys = 0
      THEN [count |-> 1, x |-> x, y |-> 0, z |-> 1]
      ELSE IF CharAt(string, at + xs + 1 + ys) # "*" \/ zs = 0
      THEN [count |-> 2, x |-> x, y |-> y, z |-> 1]
      ELSE [count |-> 3, x |-> x, y |-> y, z |-> z]

\* "count indexes": where the index list ends, and how many it holds
RECURSIVE CountIndexes(_, _, _)
CountIndexes(string, tmp, nbobjs) ==
  LET size == strspn(string, tmp)
  IN  IF CharAt(string, tmp + size) # ","
      THEN [tmp |-> tmp + size, nbobjs |-> nbobjs + 1]
      ELSE CountIndexes(string, tmp + size + 1, nbobjs + 1)

\* "parse indexes": the indexes, and where the distances start
RECURSIVE ParseIndexes(_, _, _, _, _)
ParseIndexes(string, tmp, i, nbobjs, indexes) ==
  IF i >= nbobjs THEN [tmp |-> tmp, indexes |-> indexes]
  ELSE ParseIndexes(string, strtoul(string, tmp).next + 1, i + 1, nbobjs,
                    [indexes EXCEPT ![i + 1] = strtoul(string, tmp).value])

\* "parse a comma separated list of distances"
RECURSIVE ParseDistances(_, _, _, _, _)
ParseDistances(string, tmp, i, nbobjs, distances) ==
  IF i >= nbobjs * nbobjs THEN [enough |-> TRUE, distances |-> distances]
  ELSE LET read == strtof(string, tmp)
           filled == [distances EXCEPT ![i + 1] = read.value]
       IN  IF CharAt(string, read.next) = NUL /\ i # nbobjs * nbobjs - 1
           THEN [enough |-> FALSE, distances |-> filled]
           ELSE ParseDistances(string, read.next + 1, i + 1, nbobjs, filled)

\* what hwloc_get_type_distances_from_string hands to
\* hwloc_topology__set_distance_matrix, if it gets that far
ParsedCall(string) ==
  LET counted == CountIndexes(string, 0, 0)
      nbobjs == counted.nbobjs
      parsed == ParseIndexes(string, 0, 0, nbobjs, [k \in 1..nbobjs |-> 0])
      scanned == sscanf(string, parsed.tmp)
      listed == ParseDistances(string, parsed.tmp, 0, nbobjs,
                               [k \in 1..(nbobjs * nbobjs) |-> F(0)])
      none == [called |-> FALSE, nbobjs |-> nbobjs, indexes |-> <<>>, distances |-> <<>>]
  IN  IF CharAt(string, counted.tmp) # ":" THEN none
      ELSE IF scanned.count >= 2
      THEN IF scanned.x * scanned.y * scanned.z # nbobjs THEN none
           ELSE [called |-> TRUE, nbobjs |-> nbobjs, indexes |-> parsed.indexes,
                 distances |-> GeneratedMatrix(nbobjs, scanned.y, scanned.z)]
      ELSE IF ~listed.enough THEN none
      ELSE [called |-> TRUE, nbobjs |-> nbobjs, indexes |-> parsed.indexes,
            distances |-> listed.distances]

\* the store after hwloc_get_type_distances_from_string
hwloc_get_type_distances_from_string(osd, type, string) ==
  LET call == ParsedCall(string)
  IN  IF call.called
      THEN [osd EXCEPT ![type] = SlotAfterSet(@, call.nbobjs, call.indexes, call.distances)]
      ELSE osd

\* the loop of hwloc_store_distances_from_env from type number k on; env
\* maps a type to what getenv returns for its variable
RECURSIVE StoreFromEnv(_, _, _)
StoreFromEnv(env, osd, k) ==
  IF k > Len(TypeOrder) THEN osd
  ELSE IF env[TypeOrder[k]] = NULL THEN StoreFromEnv(env, osd, k + 1)
  ELSE StoreFromEnv(env,
         hwloc_get_type_distances_from_string(osd, TypeOrder[k], Deref(env[TypeOrder[k]])),
         k + 1)

\* a rejected index list leaves EINVAL in errno
EnvSetsErrno(env) ==
  \E t \in Types :
    /\ env[t] # NULL
    /\ ParsedCall(Deref(env[t])).called
    /\ HasDuplicateIndex(ParsedCall(Deref(env[t])).nbobjs, ParsedCall(Deref(env[t])).indexes)

\* take distances in the environment, store them as is in the topology; it
\* runs once per topology
hwloc_store_distances_from_env(env) ==
  /\ ~crashed
  /\ lastcall.op # "env"
  /\ os_distances' = StoreFromEnv(env, os_distances, 1)
  /\ errno' = IF EnvSetsErrno(env) THEN EINVAL ELSE errno
  /\ lastcall' = [op |-> "env", type |-> "", nbobjs |-> 0, indexes |-> <<>>, env |-> env]
  /\ UNCHANGED <<tree, ret, groups, attached, glog, crashed>>

\* no grouping run yet
NoLog == [t \in Types |-> <<>>]

----------------------------------------------------------------------------
(* IndexResolver                                                            *)

RECURSIVE hwloc_find_obj_by_type_and_os_index(_, _, _, _)
RECURSIVE FindAmongSiblings(_, _, _, _, _)

\* the walk over first_child / next_sibling: the first child subtree that
\* holds a match decides
FindAmongSiblings(tr, siblings, k, type, os_index) ==
  IF k > Len(siblings) THEN 0
  ELSE LET found == hwloc_find_obj_by_type_and_os_index(tr, siblings[k], type, os_index)
       IN  IF found # 0 THEN found
           ELSE FindAmongSiblings(tr, siblings, k + 1, type, os_index)

\* a defect: only the chain of first children is searched
FindOnFirstChildChain(tr, root, type, os_index) ==
  LET RECURSIVE Walk(_)
      Walk(o) == IF tr[o].type = type /\ tr[o].os_index = os_index THEN o
                 ELSE IF tr[o].children = <<>> THEN 0
                 ELSE Walk(tr[o].children[1])
  IN  Walk(root)

hwloc_find_obj_by_type_and_os_index(tr, root, type, os_index) ==
  IF tr[root].type = type /\ tr[root].os_index = os_index THEN root
  ELSE FindAmongSiblings(tr, tr[root].children, 1, type, os_index)

\* objs for one type: filled in index order, or NULL as soon as one OS index
\* is unknown
RECURSIVE ResolveFrom(_, _, _, _, _)
ResolveFrom(tr, type, indexes, i, objs) ==
  IF i > Len(indexes) THEN Ptr(objs)
  ELSE LET obj == hwloc_find_obj_by_type_and_os_index(tr, 1, type, indexes[i])
       IN  IF obj = 0 THEN NULL
           ELSE ResolveFrom(tr, type, indexes, i + 1, Append(objs, obj))

ConvertedSlot(tr, type, slot) ==
  IF slot.indexes # NULL
  THEN [slot EXCEPT !.objs =
          ResolveFrom(tr, type, SubSeq(Deref(slot.indexes), 1, slot.nbobjs), 1, <<>>)]
  ELSE slot

\* convert distance indexes that were previously stored in the topology
\* into actual objects
hwloc_convert_distances_indexes_into_objects ==
  /\ ~crashed
  /\ os_distances' = [t \in Types |-> ConvertedSlot(tree, t, os_distances[t])]
  /\ lastcall' = NoCall("convert")
  /\ UNCHANGED <<tree, ret, errno, groups, attached, glog, crashed>>

\* objs of some type is shorter than nbobjs (a matrix was set after the last
\* conversion): objs[i] is then read past its end, and the pointer found
\* there is dereferenced
StaleObjs(osd) ==
  \E t \in Types :
    /\ osd[t].objs # NULL
    /\ Len(Deref(osd[t].objs)) < osd[t].nbobjs

----------------------------------------------------------------------------
(* LogicalNormalizer                                                        *)

\* hwloc_bitmap_or over objs[0..nbobjs-1]->cpuset
CpusetUnion(tr, nbobjs, objs) == UNION {tr[objs[i]].cpuset : i \in 1..nbobjs}

\* hwloc_get_child_covering_cpuset, repeated: descend into the first child
\* whose cpuset includes the set, until no child does
RECURSIVE CoveringFrom(_, _, _)
CoveringFrom(tr, cur, set) ==
  LET kids == tr[cur].children
      covering == {k \in 1..Len(kids) : set \subseteq tr[kids[k]].cpuset}
  IN  IF covering = {} THEN cur
      ELSE CoveringFrom(tr, kids[CHOOSE k \in covering : \A l \in covering : k <= l], set)

hwloc_get_obj_covering_cpuset(tr, set) ==
  IF set = {} \/ ~(set \subseteq tr[1].cpuset) THEN 0 ELSE CoveringFrom(tr, 1, set)

HWLOC_TYPE_DEPTH_UNKNOWN == -1

HWLOC_TYPE_DEPTH_MULTIPLE == -2

hwloc_get_type_depth(tr, type) ==
  LET depths == {tr[o].depth : o \in {x \in DOMAIN tr : tr[x].type = type}}
  IN  IF depths = {} THEN HWLOC_TYPE_DEPTH_UNKNOWN
      ELSE IF Cardinality(depths) > 1 THEN HWLOC_TYPE_DEPTH_MULTIPLE
      ELSE CHOOSE d \in depths : TRUE

\* "the logical index offset, it's the min of all logical indexes"; minl
\* starts at UINT_MAX, written -1 here
RECURSIVE MinLogicalIndex(_, _, _, _, _)
MinLogicalIndex(tr, nbobjs, objs, i, minl) ==
  IF i >= nbobjs THEN minl
  ELSE MinLogicalIndex(tr, nbobjs, objs, i + 1,
         IF minl = -1 \/ minl > tr[objs[i + 1]].logical_index
         THEN tr[objs[i + 1]].logical_index ELSE minl)

\* "compute/check min/max values": one pass over the nbobjs*nbobjs cells
RECURSIVE ScanMinMax(_, _, _)
\* a defect: a null minimum is reported as 1
ScanMinMax_NullBecomesOne(osmatrix, k, mm) ==
  IF k > Len(osmatrix) THEN (IF mm.min = F(0) THEN [mm EXCEPT !.min = F(1)] ELSE mm)
  ELSE LET val == osmatrix[k]
       IN  ScanMinMax(osmatrix, k + 1,
             [min |-> IF QLt(val, mm.min) THEN val ELSE mm.min,
              max |-> IF QLt(mm.max, val) THEN val ELSE mm.max])

ScanMinMax(osmatrix, k, mm) ==
  IF k > Len(osmatrix) THEN mm
  ELSE LET val == osmatrix[k]
       IN  ScanMinMax(osmatrix, k + 1,
             [min |-> IF QLt(val, mm.min) THEN val ELSE mm.min,
              max |-> IF QLt(mm.max, val) THEN val ELSE mm.max])

\* a defect: the operands of the division are exchanged
NORMALIZE_LATENCY_Inverted(d, min) == IF d[1] = 0 THEN F(0) ELSE QDiv(min, d)

NORMALIZE_LATENCY(d, min) == QDiv(d, min)

\* a cell of the malloc'ed latency matrix that was never written
UNINIT == <<0, 0>>

\* a defect: the matrix is stored in the order of the OS matrix
LatencyMatrix_NotReindexed(tr, nbobjs, objs, osmatrix, min, minl) ==
  [k \in 1..(nbobjs * nbobjs) |-> NORMALIZE_LATENCY(osmatrix[k], min)]

\* the stores of lines 302-310, in program order, into a fresh matrix
LatencyMatrix(tr, nbobjs, objs, osmatrix, min, minl) ==
  LET L(i) == tr[objs[i + 1]].logical_index - minl
      At(r, c) == r * nbobjs + c + 1
      N(i, j) == NORMALIZE_LATENCY(Cell(osmatrix, nbobjs, i, j), min)
      RECURSIVE Inner(_, _, _)
      Inner(matrix, i, j) ==
        IF j >= nbobjs THEN matrix
        ELSE Inner([[matrix EXCEPT ![At(L(i), L(j))] = N(i, j)]
                            EXCEPT ![At(L(j), L(i))] = N(j, i)], i, j + 1)
      RECURSIVE Outer(_, _)
      Outer(matrix, i) ==
        IF i >= nbobjs THEN matrix
        ELSE Outer(Inner([matrix EXCEPT ![At(L(i), L(i))] = N(i, i)], i, i + 1), i + 1)
  IN  Outer([k \in 1..(nbobjs * nbobjs) |-> UNINIT], 0)

\* obj->distances of every object after hwloc_setup_distances_from_os_matrix
hwloc_setup_distances_from_os_matrix(tr, records, nbobjs, objs, osmatrix) ==
  LET set == CpusetUnion(tr, nbobjs, objs)
      root == hwloc_get_obj_covering_cpuset(tr, set)
      relative_depth == tr[objs[1]].depth - tr[root].depth
      minl == MinLogicalIndex(tr, nbobjs, objs, 0, -1)
      mm == ScanMinMax(osmatrix, 1, [min |-> FLT_MAX, max |-> FLT_MIN])
  IN  IF set # tr[root].cpuset THEN records
      ELSE IF mm.min = F(0) THEN records
      ELSE [records EXCEPT ![root] = Append(@,
              [relative_depth |-> relative_depth,
               nbobjs |-> nbobjs,
               latency |-> LatencyMatrix(tr, nbobjs, objs, osmatrix, mm.min, minl),
               latency_base |-> mm.min,
               latency_max |-> NORMALIZE_LATENCY(mm.max, mm.min)])]

\* the loop of hwloc_finalize_logical_distances from type number k on
RECURSIVE FinalizeFrom(_, _, _, _)
FinalizeFrom(tr, osd, k, records) ==
  IF k > Len(TypeOrder) THEN records
  ELSE LET type == TypeOrder[k]
           nbobjs == osd[type].nbobjs
           depth == hwloc_get_type_depth(tr, type)
       IN  IF nbobjs = 0 THEN FinalizeFrom(tr, osd, k + 1, records)
           ELSE IF depth = HWLOC_TYPE_DEPTH_UNKNOWN \/ depth = HWLOC_TYPE_DEPTH_MULTIPLE
           THEN FinalizeFrom(tr, osd, k + 1, records)
           ELSE IF osd[type].objs # NULL
           THEN FinalizeFrom(tr, osd, k + 1,
                  hwloc_setup_distances_from_os_matrix(tr, records, nbobjs,
                    Deref(osd[type].objs), Deref(osd[type].distances)))
           ELSE FinalizeFrom(tr, osd, k + 1, records)

\* convert internal distances into logically-ordered distances; it runs once
\* per load, after the conversion, on objects that carry no record yet
hwloc_finalize_logical_distances ==
  /\ ~crashed
  /\ \A o \in DOMAIN tree : attached[o] = <<>>
  /\ IF StaleObjs(os_distances)
     THEN crashed' = TRUE /\ attached' = attached
     ELSE crashed' = crashed /\ attached' = FinalizeFrom(tree, os_distances, 1, attached)
  /\ lastcall' = NoCall("finalize")
  /\ UNCHANGED <<tree, os_distances, ret, errno, groups, glog>>

----------------------------------------------------------------------------
(* GroupingEngine                                                           *)

\* "find the minimal distance": the least cell above the diagonal that is
\* below FLT_MAX, else FLT_MAX
MinDistance(nbobjs, distances) ==
  LET above == {FLT_MAX} \cup
                 {Cell(distances, nbobjs, p[1], p[2]) :
                    p \in {q \in (0..(nbobjs - 1)) \X (0..(nbobjs - 1)) : q[1] < q[2]}}
  IN  CHOOSE m \in above : \A v \in above : QLe(m, v)

\* Place objects in groups if they are in a transitive graph of minimal
\* distances: the group id of every position (0: none) and the number of groups
hwloc_setup_group_from_min_distance(nbobjs, distances) ==
  LET min_distance == MinDistance(nbobjs, distances)
      \* for(k=0; k<nbobjs; k++) at member j of the group
      RECURSIVE ScanK(_, _, _, _)
      ScanK(st, groupid, j, k) ==
        IF k >= nbobjs THEN st
        ELSE IF st.groupids[k + 1] = 0 /\ Cell(distances, nbobjs, j, k) = min_distance
        THEN ScanK([groupids |-> [st.groupids EXCEPT ![k + 1] = groupid],
                    size |-> st.size + 1,
                    newfirstfound |-> IF st.newfirstfound = -1 THEN k
                                      ELSE st.newfirstfound],
                   groupid, j, k + 1)
        ELSE ScanK(st, groupid, j, k + 1)
      \* for(j=firstfound; j<nbobjs; j++)
      RECURSIVE ScanJ(_, _, _)
      ScanJ(st, groupid, j) ==
        IF j >= nbobjs THEN st
        ELSE IF st.groupids[j + 1] = groupid
        THEN ScanJ(ScanK(st, groupid, j, 0), groupid, j + 1)
        ELSE ScanJ(st, groupid, j + 1)
      \* while (firstfound != -1)
      RECURSIVE Rescan(_, _, _)
      Rescan(st, groupid, firstfound) ==
        IF firstfound = -1 THEN st
        ELSE LET after == ScanJ([st EXCEPT !.newfirstfound = -1], groupid, firstfound)
             IN  Rescan(after, groupid, after.newfirstfound)
      \* for(i=0; i<nbobjs; i++)
      RECURSIVE Seed(_, _, _)
      Seed(groupids, groupid, i) ==
        IF i >= nbobjs THEN [groupids |-> groupids, nbgroups |-> groupid - 1]
        ELSE IF groupids[i + 1] # 0 THEN Seed(groupids, groupid, i + 1)
        ELSE LET st == Rescan([groupids |-> [groupids EXCEPT ![i + 1] = groupid],
                               size |-> 1, newfirstfound |-> -1], groupid, i)
             IN  IF st.size = 1
                 THEN Seed([st.groupids EXCEPT ![i + 1] = 0], groupid, i + 1)
                 ELSE Seed(st.groupids, groupid + 1, i + 1)
      zeroed == [k \in 1..nbobjs |-> 0]
  IN  IF min_distance = FLT_MAX THEN [groupids |-> zeroed, nbgroups |-> 0]
      ELSE Seed(zeroed, 1, 0)

\* a defect: group number i collects the positions of id i instead of i+1
GroupObject_OffByOne(nbobjs, cpusets, groupids, depth, i) ==
  [cpuset |-> UNION {cpusets[j] : j \in {x \in 1..nbobjs : groupids[x] = i}},
   depth |-> depth]

\* the Group object number i (0-based) of a level
GroupObject(nbobjs, cpusets, groupids, depth, i) ==
  [cpuset |-> UNION {cpusets[j] : j \in {x \in 1..nbobjs : groupids[x] = i + 1}},
   depth |-> depth]

GroupSize(nbobjs, groupids, i) == Cardinality({j \in 1..nbobjs : groupids[j] = i + 1})

\* some position has group id 0: groupids[i]-1 wraps to UINT_MAX and the
\* accesses of line 492 leave groupdistances
IndexesOutOfBounds(nbobjs, groupids) == \E i \in 1..nbobjs : groupids[i] = 0

\* "factorize distances": cell k (flat, 0-based) of groupdistances.  An
\* index UINT_MAX counts as -1 where pointers are 32 bits wide: cell [a][-1]
\* is then cell [a-1][nbgroups-1], and the cells before the array are stack
\* the function does not use.
Factorized(nbobjs, distances, groupids, nbgroups) ==
  LET At(i, j) == (groupids[i + 1] - 1) * nbgroups + (groupids[j + 1] - 1)
      \* groupdistances[...][...] += distances[i*nbobjs+j], for the cells (i, j..)
      RECURSIVE SumRow(_, _, _)
      SumRow(k, i, j) ==
        IF j >= nbobjs THEN F(0)
        ELSE IF At(i, j) = k
        THEN QAdd(Cell(distances, nbobjs, i, j), SumRow(k, i, j + 1))
        ELSE SumRow(k, i, j + 1)
      RECURSIVE Sum(_, _)
      Sum(k, i) ==
        IF i >= nbobjs THEN F(0) ELSE QAdd(SumRow(k, i, 0), Sum(k, i + 1))
  IN  [c \in 1..(nbgroups * nbgroups) |->
         QDiv(Sum(c - 1, 0), F(GroupSize(nbobjs, groupids, (c - 1) \div nbgroups)
                                * GroupSize(nbobjs, groupids, (c - 1) % nbgroups)))]

\* a defect: a single all-encompassing group is materialised too
StopsWithoutGroups_OnlyOnNone(nbgroups) == nbgroups = 0

\* "if (!nbgroups) return; if (nbgroups == 1) return;"
StopsWithoutGroups(nbgroups) == nbgroups = 0 \/ nbgroups = 1

\* one record per recursion level of hwloc__setup_groups_from_distances:
\* its arguments, what the clustering returned, the Group objects it
\* inserted, and whether it died in the factorisation
RECURSIVE hwloc__setup_groups_from_distances(_, _, _, _, _)
hwloc__setup_groups_from_distances(bits, nbobjs, cpusets, distances, depth) ==
  LET entered == [nbobjs |-> nbobjs, cpusets |-> cpusets, distances |-> distances,
                  depth |-> depth, clustered |-> FALSE, groupids |-> <<>>,
                  nbgroups |-> 0, created |-> <<>>, fault |-> FALSE]
  IN  IF nbobjs <= 2 THEN <<entered>>
      ELSE
        LET found == hwloc_setup_group_from_min_distance(nbobjs, distances)
            nbgroups == found.nbgroups
            groupids == found.groupids
            clustered == [entered EXCEPT !.clustered = TRUE, !.groupids = groupids,
                                         !.nbgroups = nbgroups]
            groupobjs == [i \in 1..nbgroups |->
                            GroupObject(nbobjs, cpusets, groupids, depth, i - 1)]
        IN  IF StopsWithoutGroups(nbgroups) THEN <<clustered>>
            ELSE IF IndexesOutOfBounds(nbobjs, groupids) /\ bits = 64
            THEN <<[clustered EXCEPT !.created = groupobjs, !.fault = TRUE]>>
            ELSE <<[clustered EXCEPT !.created = groupobjs]>>
                 \o hwloc__setup_groups_from_distances(bits, nbgroups,
                      [i \in 1..nbgroups |-> groupobjs[i].cpuset],
                      Factorized(nbobjs, distances, groupids, nbgroups), depth + 1)

\* a defect: the diagonal is not looked at
MatrixIsOk_SymmetryOnly(nbobjs, distances) ==
  \A i \in 0..(nbobjs - 1) : \A j \in (i + 1)..(nbobjs - 1) :
    Cell(distances, nbobjs, i, j) = Cell(distances, nbobjs, j, i)

\* "check that the matrix is ok": the loop runs over the pairs i < j
MatrixIsOk(nbobjs, distances) ==
  \A i \in 0..(nbobjs - 1) : \A j \in (i + 1)..(nbobjs - 1) :
    /\ Cell(distances, nbobjs, i, j) = Cell(distances, nbobjs, j, i)
    /\ ~QLe(Cell(distances, nbobjs, i, j), Cell(distances, nbobjs, i, i))

\* ignore: HWLOC_IGNORE_DISTANCES is set in the environment
hwloc_setup_groups_from_distances(ignore, bits, nbobjs, cpusets, distances) ==
  IF ignore THEN <<>>
  ELSE IF ~MatrixIsOk(nbobjs, distances) THEN <<>>
  ELSE hwloc__setup_groups_from_distances(bits, nbobjs, cpusets, distances, 0)

\* the Group objects a run inserted, in insertion order
RECURSIVE CreatedIn(_)
CreatedIn(levels) ==
  IF levels = <<>> THEN <<>> ELSE levels[1].created \o CreatedIn(Tail(levels))

Faulted(levels) == \E k \in DOMAIN levels : levels[k].fault

\* the loop of hwloc_group_by_distances from type number k on; it ends where
\* the process dies
RECURSIVE GroupFrom(_, _, _, _, _, _)
GroupFrom(ignore, bits, tr, osd, k, log) ==
  IF k > Len(TypeOrder) THEN log
  ELSE LET type == TypeOrder[k]
           nbobjs == osd[type].nbobjs
           objs == Deref(osd[type].objs)
           levels == hwloc_setup_groups_from_distances(ignore, bits, nbobjs,
                       [i \in 1..nbobjs |-> tr[objs[i]].cpuset],
                       Deref(osd[type].distances))
       IN  IF nbobjs = 0 THEN GroupFrom(ignore, bits, tr, osd, k + 1, log)
           ELSE IF osd[type].objs = NULL THEN GroupFrom(ignore, bits, tr, osd, k + 1, log)
           ELSE IF Faulted(levels) THEN [log EXCEPT ![type] = levels]
           ELSE GroupFrom(ignore, bits, tr, osd, k + 1, [log EXCEPT ![type] = levels])

RECURSIVE CreatedFrom(_, _)
CreatedFrom(log, k) ==
  IF k > Len(TypeOrder) THEN <<>>
  ELSE CreatedIn(log[TypeOrder[k]]) \o CreatedFrom(log, k + 1)

\* Look at object physical distances to group them; it runs once per load,
\* after the conversion, on a tree that holds no Group object yet.  What
\* getenv returns and the pointer width of the build are the step's inputs.
hwloc_group_by_distances ==
  /\ ~crashed
  /\ groups = <<>>
  /\ IF StaleObjs(os_distances)
     THEN crashed' = TRUE /\ glog' = glog /\ groups' = groups
     ELSE \E log \in {GroupFrom(ignore, bits, tree, os_distances, 1, NoLog) :
                        ignore \in BOOLEAN, bits \in {32, 64}} :
            /\ glog' = log
            /\ groups' = CreatedFrom(log, 1)
            /\ crashed' = \E t \in Types : Faulted(log[t])
  /\ lastcall' = NoCall("group")
  /\ UNCHANGED <<tree, os_distances, ret, errno, attached>>

----------------------------------------------------------------------------
(* The environment: the backends rebuild the tree on a (re)load             *)

NoRecords(tr) == [o \in DOMAIN tr |-> <<>>]

\* the tree is rebuilt (maybe as it was) once no resolved object refers to the old one; the
\* Group objects and distance records of the old tree go with it
LoadTree(trees) ==
  /\ ~crashed
  /\ \A t \in Types : os_distances[t].objs = NULL
  /\ \E tr \in trees :
       /\ tree' = tr
       /\ attached' = NoRecords(tr)
  /\ groups' = <<>>
  /\ glog' = NoLog
  /\ lastcall' = NoCall("load")
  /\ UNCHANGED <<os_distances, ret, errno, crashed>>

InitWith(trees) ==
  /\ tree \in trees
  /\ os_distances = InitialStore
  /\ ret = 0
  /\ errno = "none"
  /\ groups = <<>>
  /\ attached = NoRecords(tree)
  /\ glog = NoLog
  /\ crashed = FALSE
  /\ lastcall = NoCall("init")

----------------------------------------------------------------------------
(* Spec: the store under any sequence of its operations                     *)

\* largest nbobjs handed to the store
MaxStoreObjs == 2

StoreTrees == {TreeOneSocket, TreeTwoSockets}

StoreIndexes == {0, 1, 2}

\* a matrix with one value on the diagonal and one off it
TwoValued(n, diag, off) ==
  [k \in 1..(n * n) |-> IF (k - 1) \div n = (k - 1) % n THEN F(diag) ELSE F(off)]

\* what callers hand to the store: for Nodes every index list over
\* StoreIndexes (duplicates included), for Sockets three fixed calls
StoreInputs ==
  { [type |-> "NODE", indexes |-> ix, distances |-> TwoValued(Len(ix), 10, 20)] :
      ix \in UNION {[1..n -> StoreIndexes] : n \in 1..MaxStoreObjs} }
  \cup
  { [type |-> "SOCKET", indexes |-> <<0>>, distances |-> TwoValued(1, 1, 2)],
    [type |-> "SOCKET", indexes |-> <<1, 0>>, distances |-> TwoValued(2, 1, 2)],
    [type |-> "SOCKET", indexes |-> <<1, 1>>, distances |-> TwoValued(2, 10, 20)] }

Init == InitWith(StoreTrees)

Next ==
  \/ hwloc_topology_distances_init
  \/ hwloc_topology_distances_clear
  \/ hwloc_topology_distances_destroy
  \/ \E in \in StoreInputs :
       hwloc_topology_set_distance_matrix(in.type, Len(in.indexes), in.indexes, in.distances)
  \/ hwloc_convert_distances_indexes_into_objects
  \/ LoadTree(StoreTrees)

Spec == Init /\ [][Next]_vars

----------------------------------------------------------------------------
(* SpecNorm: a stored matrix is resolved and normalised                     *)

\* largest nbobjs for which every matrix over {1, 2} is tried
MaxNormObjs == 2

NormTrees == {TreeOneSocket, TreeTwoSockets, TreeThreeNodes}

NormIndexes == {0, 1, 2, 3}

\* all cells distinct: cell k holds base + k
Ramp(n, base) == [k \in 1..(n * n) |-> F(base + k - 1)]

\* 10 on the diagonal and 20 off it, but for a 0 in cell k
ZeroAt(n, k) == [TwoValued(n, 10, 20) EXCEPT ![k] = F(0)]

Distinct(ix) == \A a, b \in DOMAIN ix : a # b => ix[a] # ix[b]

\* Node matrices: every list of distinct indexes up to MaxNormObjs with
\* every matrix over {1, 2}, three ramps (one holding a 0) and a 0 in every
\* cell in turn, and the four Nodes of the two-socket tree in two orders
NormInputs ==
  { [indexes |-> ix, distances |-> d] :
      ix \in {x \in UNION {[1..n -> NormIndexes] : n \in 1..MaxNormObjs} : Distinct(x)},
      d \in UNION {[1..(n * n) -> {F(1), F(2)}] \cup {Ramp(n, 0), Ramp(n, 1), Ramp(n, 3)}
                     \cup {ZeroAt(n, k) : k \in 1..(n * n)} :
                     n \in 1..MaxNormObjs} }
  \cup
  { [indexes |-> ix, distances |-> d] :
      ix \in {<<0, 1, 2, 3>>, <<3, 1, 0, 2>>},
      d \in {Ramp(4, 0), Ramp(4, 2), TwoValued(4, 1, 2), TwoValued(4, 10, 20),
              ZeroAt(4, 7), ZeroAt(4, 16)} }

\* the Socket matrix stored beside the Node matrix, if any
NormSocketSlots ==
  {EmptySlot,
   SlotAfterSet(EmptySlot, 2, <<1, 0>>, Ramp(2, 5)),
   SlotAfterSet(EmptySlot, 1, <<0>>, Ramp(1, 7))}

\* the store after init and one accepted set_distance_matrix per type
InitNorm ==
  /\ tree \in NormTrees
  /\ \E in \in NormInputs, socket \in NormSocketSlots :
       /\ Len(in.distances) = Len(in.indexes) * Len(in.indexes)
       /\ os_distances =
            [InitialStore EXCEPT
               !["NODE"] = SlotAfterSet(EmptySlot, Len(in.indexes), in.indexes, in.distances),
               !["SOCKET"] = socket]
       /\ lastcall = [op |-> "set", type |-> "NODE", nbobjs |-> Len(in.indexes),
                      indexes |-> in.indexes]
  /\ ret = 0
  /\ errno = "none"
  /\ groups = <<>>
  /\ attached = NoRecords(tree)
  /\ glog = NoLog
  /\ crashed = FALSE

NextNorm ==
  \/ hwloc_convert_distances_indexes_into_objects
  \/ hwloc_finalize_logical_distances
  \/ hwloc_topology_distances_clear
  \/ LoadTree(NormTrees)

SpecNorm == InitNorm /\ [][NextNorm]_vars

----------------------------------------------------------------------------
(* SpecGroup: a stored matrix of PUs is resolved and grouped                *)

\* largest nbobjs for which every symmetric matrix over GroupValues with a
\* null diagonal is tried
MaxGroupObjs == 4

\* largest nbobjs for which these matrices are also tried with one cell changed
MaxDefectObjs == 4

\* largest nbobjs of a generated X*Y*Z matrix
MaxGeneratedObjs == 8

GroupTree == TreeFlat(MaxGeneratedObjs + 1)

GroupValues == {10, 20}

Identity(n) == [k \in 1..n |-> k - 1]

Pairs(n) == {p \in (0..(n - 1)) \X (0..(n - 1)) : p[1] < p[2]}

\* the symmetric matrix with a null diagonal and off[<<i, j>>] at [i][j], i < j
SymmetricMatrix(n, off) ==
  [k \in 1..(n * n) |->
     LET i == (k - 1) \div n
         j == (k - 1) % n
     IN  IF i = j THEN F(0) ELSE IF i < j THEN F(off[<<i, j>>]) ELSE F(off[<<j, i>>])]

\* m (n x n) with one more object, at 20 from every other
WithOutlier(n, m) ==
  [k \in 1..((n + 1) * (n + 1)) |->
     LET i == (k - 1) \div (n + 1)
         j == (k - 1) % (n + 1)
     IN  IF i = j THEN F(0) ELSE IF i = n \/ j = n THEN F(20) ELSE Cell(m, n, i, j)]

\* m with the cell [i][j] above the diagonal given the other value
Flipped(n, m, i, j) == [m EXCEPT ![i * n + j + 1] = IF @ = F(10) THEN F(20) ELSE F(10)]

\* m with the diagonal cell [i][i] given v
WithDiagonal(n, m, i, v) == [m EXCEPT ![i * n + i + 1] = F(v)]

GeneratedShapes ==
  {x \in (1..MaxGeneratedObjs) \X (1..MaxGeneratedObjs) \X (1..MaxGeneratedObjs) :
     x[1] * x[2] * x[3] <= MaxGeneratedObjs}

\* the store after init and one accepted set_distance_matrix per type: the
\* PUs 0..nbobjs-1 with the given matrix, and the Machine slot as given
Stored(nbobjs, distances, machine) ==
  /\ os_distances =
       [InitialStore EXCEPT
          !["PU"] = SlotAfterSet(EmptySlot, nbobjs, Identity(nbobjs), distances),
          !["MACHINE"] = machine]
  /\ lastcall = [op |-> "set", type |-> "PU", nbobjs |-> nbobjs,
                 indexes |-> Identity(nbobjs)]

InitGroup ==
  /\ tree = GroupTree
  /\ \/ \E n \in 1..MaxGroupObjs : \E off \in [Pairs(n) -> GroupValues] :
          \/ Stored(n, SymmetricMatrix(n, off), EmptySlot)
          \/ Stored(n + 1, WithOutlier(n, SymmetricMatrix(n, off)), EmptySlot)
     \/ \E n \in 1..MaxDefectObjs : \E off \in [Pairs(n) -> GroupValues] :
          \/ \E p \in Pairs(n) :
               Stored(n, Flipped(n, SymmetricMatrix(n, off), p[1], p[2]), EmptySlot)
          \/ \E i \in 0..(n - 1), v \in GroupValues :
               Stored(n, WithDiagonal(n, SymmetricMatrix(n, off), i, v), EmptySlot)
     \/ \E g \in GeneratedShapes :
          \E machine \in {EmptySlot, SlotAfterSet(EmptySlot, 1, <<0>>, <<F(1)>>)} :
            Stored(g[1] * g[2] * g[3], GeneratedMatrix(g[1] * g[2] * g[3], g[2], g[3]), machine)
  /\ ret = 0
  /\ errno = "none"
  /\ groups = <<>>
  /\ attached = NoRecords(tree)
  /\ glog = NoLog
  /\ crashed = FALSE

NextGroup ==
  \/ hwloc_convert_distances_indexes_into_objects
  \/ hwloc_group_by_distances

SpecGroup == InitGroup /\ [][NextGroup]_vars

----------------------------------------------------------------------------
(* SpecParse: the environment is read into the store                        *)

\* largest number of indexes listed in a string
MaxListedIndexes == 8

\* largest X, Y or Z of a shorthand
MaxFactor == 2

\* explicit lists hold up to MaxExplicitObjs^2 + 1 values
MaxExplicitObjs == 2

\* the decimal digits of n
RECURSIVE Decimal(_)
Decimal(n) ==
  IF n < 10 THEN <<Digits[n + 1]>> ELSE Decimal(n \div 10) \o <<Digits[(n % 10) + 1]>>

\* the numbers of a sequence in decimal, c between two of them
RECURSIVE Joined(_, _)
Joined(numbers, c) ==
  IF numbers = <<>> THEN <<>>
  ELSE IF Len(numbers) = 1 THEN Decimal(numbers[1])
  ELSE Decimal(numbers[1]) \o <<c>> \o Joined(Tail(numbers), c)

ListedIndexes ==
  {Identity(n) : n \in 1..MaxListedIndexes} \cup {<<0, 0>>, <<1, 0>>, <<12, 7>>}

Shorthands ==
  UNION {[1..k -> 1..MaxFactor] : k \in 2..3}

\* m explicit values: 1, 2, ..., 9, 1, ...
ExplicitValues(m) == [k \in 1..m |-> ((k - 1) % 9) + 1]

ExplicitCounts == 0..(MaxExplicitObjs * MaxExplicitObjs + 1)

\* index list, colon or not, and a shorthand or an explicit list that may
\* end with a comma
ConfigString(indexes, colon, body) == Joined(indexes, ",") \o colon \o body

ShorthandBody(shape) == Joined(shape, "*")

ExplicitBody(m, trailing) == Joined(ExplicitValues(m), ",") \o trailing

ConfigStrings ==
  { ConfigString(ix, colon, ShorthandBody(shape)) :
      ix \in ListedIndexes, colon \in {<<":">>, <<>>}, shape \in Shorthands }
  \cup
  { ConfigString(ix, colon, ExplicitBody(m, trailing)) :
      ix \in {x \in ListedIndexes : Len(x) <= MaxExplicitObjs},
      colon \in {<<":">>, <<>>}, m \in ExplicitCounts, trailing \in {<<>>, <<",">>} }

\* what getenv returns: the Node variable holds any of the strings while
\* the Socket variable is unset, or both are taken among a few
Environments ==
  { [t \in Types |-> IF t = "NODE" THEN Ptr(str) ELSE NULL] : str \in ConfigStrings }
  \cup
  { [t \in Types |-> IF t = "NODE" THEN node ELSE IF t = "SOCKET" THEN socket ELSE NULL] :
      node \in {NULL, Ptr(ConfigString(<<0, 1>>, <<":">>, ShorthandBody(<<1, 2>>))),
                Ptr(ConfigString(<<0, 0>>, <<":">>, ShorthandBody(<<1, 2>>))),
                Ptr(ConfigString(<<0>>, <<":">>, ExplicitBody(0, <<>>)))},
      socket \in {NULL, Ptr(ConfigString(<<0, 1>>, <<":">>, ShorthandBody(<<2, 1>>))),
                  Ptr(ConfigString(<<0, 1>>, <<>>, ShorthandBody(<<2, 1>>)))} }

\* the store after init, or after the application set a Node matrix as well
InitParse ==
  /\ tree = TreeTwoSockets
  /\ \/ os_distances = InitialStore /\ lastcall = NoCall("init")
     \/ /\ os_distances =
             [InitialStore EXCEPT
                !["NODE"] = SlotAfterSet(EmptySlot, 2, <<3, 1>>, TwoValued(2, 10, 20))]
        /\ lastcall = [op |-> "set", type |-> "NODE", nbobjs |-> 2, indexes |-> <<3, 1>>]
  /\ ret = 0
  /\ errno = "none"
  /\ groups = <<>>
  /\ attached = NoRecords(tree)
  /\ glog = NoLog
  /\ crashed = FALSE

NextParse ==
  \/ \E env \in Environments : hwloc_store_distances_from_env(env)
  \/ hwloc_topology_distances_init

SpecParse == InitParse /\ [][NextParse]_vars

----------------------------------------------------------------------------
(* Properties of the store and of the index resolver                        *)

\* some object of the tree has this type and OS index
InTree(tr, type, os_index) ==
  \E o \in DOMAIN tr : tr[o].type = type /\ tr[o].os_index = os_index

\* objs is the object-by-object image of the index list of its slot
ParallelToIndexes(tr, type, slot) ==
  /\ slot.indexes # NULL
  /\ Len(Deref(slot.objs)) = slot.nbobjs
  /\ Len(Deref(slot.indexes)) = slot.nbobjs
  /\ \A k \in 1..slot.nbobjs :
       /\ tr[Deref(slot.objs)[k]].type = type
       /\ tr[Deref(slot.objs)[k]].os_index = Deref(slot.indexes)[k]

\* C5: a set_distance_matrix call whose index list holds two equal entries
\* returns -1 with errno EINVAL and leaves the slot of every type (nbobjs,
\* indexes, distances, objs) exactly as it was before the call.
C5_DuplicateIndexRejected ==
  [][ (lastcall'.op = "set" /\ HasDuplicateIndex(lastcall'.nbobjs, lastcall'.indexes))
        => (ret' = -1 /\ errno' = EINVAL /\ os_distances' = os_distances) ]_vars

\* a duplicate index list was just rejected for a type that holds a resolved matrix
C5_Witness ==
  /\ lastcall.op = "set"
  /\ HasDuplicateIndex(lastcall.nbobjs, lastcall.indexes)
  /\ ret = -1
  /\ os_distances[lastcall.type].indexes # NULL
  /\ os_distances[lastcall.type].objs # NULL
  /\ os_distances[lastcall.type].nbobjs # lastcall.nbobjs

\* C6: in every reachable state, for every type whose objs is present, objs
\* has exactly nbobjs entries (the length of indexes) and objs[k] is an
\* object of that type whose OS index is indexes[k].
C6_ObjsParallelToIndexes ==
  \A t \in Types :
    os_distances[t].objs # NULL => ParallelToIndexes(tree, t, os_distances[t])

\* C7: after the conversion of indexes into objects, every type keeps its
\* nbobjs, indexes and distances; a type with an index list has objs present
\* and filled in index order when every index names a tree object of the
\* type, and objs absent when some index names none.
C7_ResolveAllOrNothing ==
  [][ lastcall'.op = "convert" =>
        \A t \in Types :
          /\ os_distances'[t].nbobjs = os_distances[t].nbobjs
          /\ os_distances'[t].indexes = os_distances[t].indexes
          /\ os_distances'[t].distances = os_distances[t].distances
          /\ os_distances[t].indexes # NULL =>
               IF \A k \in 1..os_distances[t].nbobjs :
                    InTree(tree, t, Deref(os_distances[t].indexes)[k])
               THEN /\ os_distances'[t].objs # NULL
                    /\ ParallelToIndexes(tree, t, os_distances'[t])
               ELSE os_distances'[t].objs = NULL ]_vars

\* a conversion resolved one type in full and dropped another whose list
\* names an object the tree does not hold
C7_Witness ==
  /\ lastcall.op = "convert"
  /\ \E t \in Types :
       /\ os_distances[t].objs = NULL
       /\ os_distances[t].indexes # NULL
       /\ \E k \in 1..os_distances[t].nbobjs :
            InTree(tree, t, Deref(os_distances[t].indexes)[k])
  /\ \E t \in Types :
       /\ os_distances[t].objs # NULL
       /\ os_distances[t].nbobjs > 1

\* C8: a clear removes objs of every type and keeps nbobjs, indexes and
\* distances of every type; a destroy leaves indexes, distances and objs
\* absent for every type.
C8_ClearKeepsDestroyDrops ==
  [][ /\ lastcall'.op = "clear" =>
           \A t \in Types :
             /\ os_distances'[t].objs = NULL
             /\ os_distances'[t].nbobjs = os_distances[t].nbobjs
             /\ os_distances'[t].indexes = os_distances[t].indexes
             /\ os_distances'[t].distances = os_distances[t].distances
      /\ lastcall'.op = "destroy" =>
           \A t \in Types :
             /\ os_distances'[t].indexes = NULL
             /\ os_distances'[t].distances = NULL
             /\ os_distances'[t].objs = NULL ]_vars

\* a clear has just run on a store that holds the matrices of two types
C8_Witness ==
  /\ lastcall.op = "clear"
  /\ os_distances["NODE"].indexes # NULL
  /\ os_distances["NODE"].distances # NULL
  /\ os_distances["SOCKET"].indexes # NULL
  /\ \A t \in Types : os_distances[t].objs = NULL

----------------------------------------------------------------------------
(* Properties of the normaliser                                             *)

Cells(m) == {m[k] : k \in DOMAIN m}

\* the smallest and the largest entry of a matrix, by definition
LeastOf(m) == CHOOSE v \in Cells(m) : \A w \in Cells(m) : QLe(v, w)

GreatestOf(m) == CHOOSE v \in Cells(m) : \A w \in Cells(m) : QLe(w, v)

ResolvedObjs(t) == Deref(os_distances[t].objs)

RawMatrix(t) == Deref(os_distances[t].distances)

CoveringObj(t) ==
  hwloc_get_obj_covering_cpuset(tree, CpusetUnion(tree, os_distances[t].nbobjs, ResolvedObjs(t)))

LeastLogicalIndex(t) ==
  LET ls == {tree[ResolvedObjs(t)[i]].logical_index : i \in 1..os_distances[t].nbobjs}
  IN  CHOOSE l \in ls : \A x \in ls : l <= x

\* row/column of input position i (0-based) in the stored matrix
LogicalPos(t, i) == tree[ResolvedObjs(t)[i + 1]].logical_index - LeastLogicalIndex(t)

\* type t is resolved, its inputs cover exactly the cpuset of one object and
\* the least entry of its raw matrix is positive
IsNormalised(t) ==
  /\ os_distances[t].objs # NULL
  /\ os_distances[t].nbobjs # 0
  /\ CpusetUnion(tree, os_distances[t].nbobjs, ResolvedObjs(t)) = tree[CoveringObj(t)].cpuset
  /\ QLt(F(0), LeastOf(RawMatrix(t)))

\* C9: when the normaliser attaches a record for inputs that cover exactly
\* the cpuset of the covering object and whose raw matrix has least entry
\* min > 0, the record has latency_base = min, latency_max = max/min, entry
\* (logical_index(objs[i]) - minl, logical_index(objs[j]) - minl) equal to
\* raw[i][j]/min for all input positions i, j, and no other cell.
C9_NormalisedReindexed ==
  lastcall.op = "finalize" =>
    \A t \in Types : IsNormalised(t) =>
      LET n == os_distances[t].nbobjs
          min == LeastOf(RawMatrix(t))
          max == GreatestOf(RawMatrix(t))
      IN  \E r \in Cells(attached[CoveringObj(t)]) :
            /\ r.nbobjs = n
            /\ r.latency_base = min
            /\ r.latency_max = QDiv(max, min)
            /\ Len(r.latency) = n * n
            /\ \A i, j \in 0..(n - 1) :
                 Cell(r.latency, n, LogicalPos(t, i), LogicalPos(t, j))
                   = QDiv(Cell(RawMatrix(t), n, i, j), min)
            /\ \A k \in 1..(n * n) :
                 \E i, j \in 0..(n - 1) : k = LogicalPos(t, i) * n + LogicalPos(t, j) + 1

\* a record was attached for inputs given out of logical order, below an
\* object that is not the first of its level
C9_Witness ==
  /\ lastcall.op = "finalize"
  /\ \E t \in Types :
       /\ IsNormalised(t)
       /\ os_distances[t].nbobjs > 1
       /\ LeastLogicalIndex(t) > 0
       /\ LogicalPos(t, 0) > LogicalPos(t, 1)
       /\ Cell(RawMatrix(t), 2, 0, 1) # Cell(RawMatrix(t), 2, 1, 0)
       /\ attached[CoveringObj(t)] # <<>>

\* C10 as stated: every attached record has latency entry (i,i) equal to 1
\* for every i.
C10_DiagonalIsOne ==
  \A o \in DOMAIN attached :
    \A r \in Cells(attached[o]) :
      \A i \in 0..(r.nbobjs - 1) : Cell(r.latency, r.nbobjs, i, i) = F(1)

\* C10, amended: the record attached for a type has latency entry (l,l), l
\* the logical position of input i, equal to raw[i][i]/latency_base, and that
\* is 1 exactly when raw[i][i] is the least entry of the raw matrix.
C10_DiagonalIsRawOverBase ==
  lastcall.op = "finalize" =>
    \A t \in Types : IsNormalised(t) =>
      LET n == os_distances[t].nbobjs
      IN  \E r \in Cells(attached[CoveringObj(t)]) :
            /\ r.nbobjs = n
            /\ r.latency_base = LeastOf(RawMatrix(t))
            /\ \A i \in 0..(n - 1) :
                 LET d == Cell(r.latency, n, LogicalPos(t, i), LogicalPos(t, i))
                     raw == Cell(RawMatrix(t), n, i, i)
                 IN  /\ d = QDiv(raw, r.latency_base)
                     /\ d = F(1) <=> raw = LeastOf(RawMatrix(t))

\* a record whose diagonal holds a 1 and an entry that is not 1
C10_Witness ==
  /\ lastcall.op = "finalize"
  /\ \E t \in Types :
       /\ IsNormalised(t)
       /\ \E r \in Cells(attached[CoveringObj(t)]) :
            /\ r.nbobjs = os_distances[t].nbobjs
            /\ \E i, j \in 0..(r.nbobjs - 1) :
                 /\ Cell(r.latency, r.nbobjs, i, i) = F(1)
                 /\ Cell(r.latency, r.nbobjs, j, j) # F(1)

\* the raw matrix of type t holds a 0
HasZero(t) == F(0) \in Cells(RawMatrix(t))

\* C11: the normaliser attaches no record for a raw matrix of non-negative
\* values that holds a 0 anywhere: an object covered only by such matrices
\* keeps its records as they were, and every record the pass adds has a
\* positive latency_base, the least entry of a matrix without 0
C11_ZeroEntryRejected ==
  [][lastcall'.op = "finalize" /\ ~crashed' =>
       \A o \in DOMAIN tree :
         /\ (\A t \in Types :
                (os_distances[t].nbobjs # 0 /\ os_distances[t].objs # NULL
                 /\ CoveringObj(t) = o) => HasZero(t))
            => attached'[o] = attached[o]
         /\ \A k \in (Len(attached[o]) + 1)..Len(attached'[o]) :
              /\ QLt(F(0), attached'[o][k].latency_base)
              /\ \E t \in Types :
                   /\ os_distances[t].objs # NULL
                   /\ CoveringObj(t) = o
                   /\ ~HasZero(t)
                   /\ attached'[o][k].nbobjs = os_distances[t].nbobjs
                   /\ attached'[o][k].latency_base = LeastOf(RawMatrix(t))]_vars

\* the normaliser ran on a matrix whose only 0 is off the diagonal and whose
\* inputs cover exactly one object, and no object carries a record
C11_Witness ==
  /\ lastcall.op = "finalize"
  /\ ~crashed
  /\ \E t \in Types :
       /\ os_distances[t].objs # NULL
       /\ os_distances[t].nbobjs > 1
       /\ CpusetUnion(tree, os_distances[t].nbobjs, ResolvedObjs(t)) = tree[CoveringObj(t)].cpuset
       /\ HasZero(t)
       /\ \A i \in 0..(os_distances[t].nbobjs - 1) :
            Cell(RawMatrix(t), os_distances[t].nbobjs, i, i) # F(0)
  /\ \A o \in DOMAIN tree : attached[o] = <<>>

----------------------------------------------------------------------------
(* Properties of the grouping engine                                        *)

\* the recursion levels of the last grouping pass, over all types
Levels == UNION {{glog[t][k] : k \in DOMAIN glog[t]} : t \in Types}

Positions(n) == 0..(n - 1)

IsSymmetric(n, m) ==
  \A i \in Positions(n), j \in Positions(n) : Cell(m, n, i, j) = Cell(m, n, j, i)

HasStrictlyMinimalDiagonal(n, m) ==
  \A i \in Positions(n), j \in Positions(n) :
    i # j => QLt(Cell(m, n, i, i), Cell(m, n, i, j))

\* the global off-diagonal minimum of m
OffDiagonalMinimum(n, m) ==
  LET off == {Cell(m, n, p[1], p[2]) : p \in {q \in Positions(n) \X Positions(n) : q[1] # q[2]}}
  IN  CHOOSE v \in off : \A w \in off : QLe(v, w)

MinLinked(n, m, i, j) == i # j /\ Cell(m, n, i, j) = OffDiagonalMinimum(n, m)

\* the positions joined to the positions of S by chains of minimum links
RECURSIVE ChainedTo(_, _, _)
ChainedTo(n, m, S) ==
  LET T == S \cup {j \in Positions(n) : \E i \in S : MinLinked(n, m, i, j)}
  IN  IF T = S THEN S ELSE ChainedTo(n, m, T)

Component(n, m, i) == ChainedTo(n, m, {i})

\* C1: on a symmetric matrix of more than 2 objects with a strictly minimal
\* diagonal, two positions carry the same non-zero group id exactly when a
\* chain of minimum links joins them, a position without minimum link keeps
\* id 0, and the count is the number of components of 2 positions or more
C1_GroupsAreMinLinkComponents ==
  \A lv \in Levels :
    (/\ lv.clustered
     /\ lv.nbobjs > 2
     /\ IsSymmetric(lv.nbobjs, lv.distances)
     /\ HasStrictlyMinimalDiagonal(lv.nbobjs, lv.distances))
    => LET n == lv.nbobjs
           m == lv.distances
           id(i) == lv.groupids[i + 1]
       IN  /\ \A i \in Positions(n), j \in Positions(n) :
                i # j => ((id(i) # 0 /\ id(i) = id(j)) <=> j \in Component(n, m, i))
           /\ \A i \in Positions(n) : Component(n, m, i) = {i} => id(i) = 0
           /\ lv.nbgroups =
                Cardinality({c \in {Component(n, m, i) : i \in Positions(n)} :
                               Cardinality(c) >= 2})

\* C2: a resolved matrix that is asymmetric, or whose diagonal is not
\* strictly below the rest of its row, makes the grouping pass create no
\* Group object for its type
C2_InvalidMatrixMakesNoGroup ==
  \A t \in Types :
    (/\ os_distances[t].nbobjs # 0
     /\ os_distances[t].objs # NULL
     /\ \/ ~IsSymmetric(os_distances[t].nbobjs, Deref(os_distances[t].distances))
        \/ ~HasStrictlyMinimalDiagonal(os_distances[t].nbobjs,
                                       Deref(os_distances[t].distances)))
    => CreatedIn(glog[t]) = <<>>

\* the Group objects of all levels of all types, in insertion order
AllCreated == CreatedFrom(glog, 1)

\* the 4-object matrix with (0,1)=(2,3)=10, the other pairs at 20, diagonal 0
ExampleMatrix ==
  << F(0),  F(10), F(20), F(20),
     F(10), F(0),  F(20), F(20),
     F(20), F(20), F(0),  F(10),
     F(20), F(20), F(10), F(0) >>

\* C3: a level whose clustering counts 0 or 1 group creates no Group object;
\* a level that counts g >= 2 creates g of them, number k covering exactly
\* the positions of id k, and all are inserted in the tree; the example
\* matrix gives two Group objects, over objects {0,1} and over {2,3}
C3_GroupsMaterialised ==
  /\ \A lv \in Levels :
       /\ lv.nbgroups \in {0, 1} => lv.created = <<>>
       /\ lv.nbgroups >= 2 =>
            /\ Len(lv.created) = lv.nbgroups
            /\ \A k \in 1..lv.nbgroups :
                 lv.created[k].cpuset =
                   UNION {lv.cpusets[i] : i \in {x \in 1..lv.nbobjs : lv.groupids[x] = k}}
  /\ groups = AllCreated
  /\ \A t \in Types :
       (glog[t] # <<>> /\ glog[t][1].distances = ExampleMatrix)
       => LET objs == Deref(os_distances[t].objs)
          IN  /\ Len(CreatedIn(glog[t])) = 2
              /\ CreatedIn(glog[t])[1].cpuset = tree[objs[1]].cpuset \cup tree[objs[2]].cpuset
              /\ CreatedIn(glog[t])[2].cpuset = tree[objs[3]].cpuset \cup tree[objs[4]].cpuset

\* the example matrix was grouped and its two Group objects are in the tree
C3_Witness ==
  /\ glog["PU"] # <<>>
  /\ glog["PU"][1].distances = ExampleMatrix
  /\ glog["PU"][1].nbgroups = 2
  /\ Len(groups) = 2
  /\ groups[1].cpuset = {0, 1}
  /\ groups[2].cpuset = {2, 3}

\* C4: a level is followed by another only if it had more than 2 objects and
\* counted 2 groups or more; the next level then receives as many objects as
\* groups were counted, fewer than this level had, one depth further; the
\* last level has at most 2 objects, or counts at most 1 group, or is where
\* the process died
C4_RecursionShrinks ==
  \A t \in Types :
    /\ \A k \in 1..(Len(glog[t]) - 1) :
         /\ glog[t][k].nbobjs > 2
         /\ glog[t][k].nbgroups >= 2
         /\ glog[t][k + 1].nbobjs = glog[t][k].nbgroups
         /\ glog[t][k + 1].nbobjs < glog[t][k].nbobjs
         /\ glog[t][k + 1].depth = glog[t][k].depth + 1
    /\ glog[t] # <<>> =>
         LET last == glog[t][Len(glog[t])]
         IN  \/ last.nbobjs <= 2
             \/ last.clustered /\ last.nbgroups <= 1
             \/ last.fault

\* a pass recursed twice: 8 objects, then 4 groups, then 2 groups
C4_Witness ==
  /\ Len(glog["PU"]) = 3
  /\ glog["PU"][1].nbobjs = 8
  /\ glog["PU"][2].nbobjs = 4
  /\ glog["PU"][3].nbobjs = 2
  /\ Len(groups) = 6

\* the sum of the cells [i][j] of m (n x n) over the pairs of S
RECURSIVE SumOfCells(_, _, _)
SumOfCells(m, n, S) ==
  IF S = {} THEN F(0)
  ELSE LET p == CHOOSE q \in S : TRUE
       IN  QAdd(Cell(m, n, p[1], p[2]), SumOfCells(m, n, S \ {p}))

\* the positions of group number a (0-based) at a level
Members(lv, a) == {i \in Positions(lv.nbobjs) : lv.groupids[i + 1] = a + 1}

\* C14: at a level that counts g >= 2 groups every position has a group id
\* in 1..g, so that the factorisation stays inside its g x g matrix and
\* divides by non-zero sizes, the process does not die there, and the next
\* level receives in entry (A, B) the mean of the entries [i][j], i in A and
\* j in B
C14_FactorizationInBounds ==
  \A t \in Types : \A k \in DOMAIN glog[t] :
    LET lv == glog[t][k]
        g == lv.nbgroups
    IN  g >= 2 =>
          /\ \A i \in 1..lv.nbobjs : lv.groupids[i] \in 1..g
          /\ \A a \in 0..(g - 1) : Members(lv, a) # {}
          /\ ~lv.fault
          /\ k + 1 \in DOMAIN glog[t]
          /\ \A a, b \in 0..(g - 1) :
               Cell(glog[t][k + 1].distances, g, a, b) =
                 QDiv(SumOfCells(lv.distances, lv.nbobjs, Members(lv, a) \X Members(lv, b)),
                      F(Cardinality(Members(lv, a)) * Cardinality(Members(lv, b))))

----------------------------------------------------------------------------
(* Properties of the configuration parser                                   *)

Product(shape) == IF Len(shape) = 2 THEN shape[1] * shape[2] ELSE shape[1] * shape[2] * shape[3]

\* entry (i, j) of the matrix the shorthand X*Y*Z stands for
ShorthandEntry(Y, Z, i, j) ==
  IF i = j THEN F(1)
  ELSE IF i \div Z = j \div Z THEN F(2)
  ELSE IF i \div (Z * Y) = j \div (Z * Y) THEN F(4)
  ELSE F(8)

\* C12: a string "indexes:X*Y" or "indexes:X*Y*Z" (Z = 1 when omitted) with
\* X*Y*Z = N, the number of listed indexes, installs these N indexes and the
\* N x N matrix with entry 1 on the diagonal, 2 where i/Z = j/Z, else 4 where
\* i/(Z*Y) = j/(Z*Y), else 8; 2*2 on 4 objects gives diagonal 1, pairs (0,1)
\* and (2,3) at 4 and every cross pair at 8
C12_ShorthandMatrix ==
  lastcall.op = "env" =>
    \A t \in Types : \A ix \in ListedIndexes : \A shape \in Shorthands :
      (/\ lastcall.env[t] # NULL
       /\ Product(shape) = Len(ix)
       /\ Distinct(ix)
       /\ lastcall.env[t] = Ptr(ConfigString(ix, <<":">>, ShorthandBody(shape))))
      => LET N == Len(ix)
             Y == shape[2]
             Z == IF Len(shape) = 3 THEN shape[3] ELSE 1
             m == Deref(os_distances[t].distances)
         IN  /\ os_distances[t].nbobjs = N
             /\ os_distances[t].indexes = Ptr(ix)
             /\ Len(m) = N * N
             /\ \A i, j \in 0..(N - 1) : Cell(m, N, i, j) = ShorthandEntry(Y, Z, i, j)
             /\ shape = <<2, 2>> =>
                  m = << F(1), F(4), F(8), F(8),
                         F(4), F(1), F(8), F(8),
                         F(8), F(8), F(1), F(4),
                         F(8), F(8), F(4), F(1) >>

\* 2*2*2 on 8 indexes was installed, with entries 2, 4 and 8
C12_Witness ==
  /\ lastcall.op = "env"
  /\ lastcall.env["NODE"] = Ptr(ConfigString(Identity(8), <<":">>, ShorthandBody(<<2, 2, 2>>)))
  /\ os_distances["NODE"].nbobjs = 8
  /\ Cell(Deref(os_distances["NODE"].distances), 8, 0, 1) = F(2)
  /\ Cell(Deref(os_distances["NODE"].distances), 8, 0, 2) = F(4)
  /\ Cell(Deref(os_distances["NODE"].distances), 8, 0, 4) = F(8)

\* the string of type t in env fails in one of the three ways
MissesColon(str) ==
  \E ix \in ListedIndexes :
    \/ \E shape \in Shorthands : str = ConfigString(ix, <<>>, ShorthandBody(shape))
    \/ \E m \in ExplicitCounts, trailing \in {<<>>, <<",">>} :
         str = ConfigString(ix, <<>>, ExplicitBody(m, trailing))

HasWrongProduct(str) ==
  \E ix \in ListedIndexes : \E shape \in Shorthands :
    /\ str = ConfigString(ix, <<":">>, ShorthandBody(shape))
    /\ Product(shape) # Len(ix)

HasTooFewValues(str) ==
  \E ix \in ListedIndexes : \E m \in ExplicitCounts, trailing \in {<<>>, <<",">>} :
    /\ str = ConfigString(ix, <<":">>, ExplicitBody(m, trailing))
    /\ m < Len(ix) * Len(ix)

\* C13: a string without colon after the index list, or whose shorthand
\* product is not the number of listed indexes, or that holds fewer than N*N
\* explicit values, leaves the slot of its type as it was, and so does it
\* leave the slot of every type whose variable is unset
C13_FailedParseInstallsNothing ==
  [][lastcall'.op = "env" =>
       \A t \in Types :
         (\/ lastcall'.env[t] = NULL
          \/ MissesColon(Deref(lastcall'.env[t]))
          \/ HasWrongProduct(Deref(lastcall'.env[t]))
          \/ HasTooFewValues(Deref(lastcall'.env[t])))
         => os_distances'[t] = os_distances[t]]_vars

====
